---- MODULE Spec2Model ----
(***************************************************************************)
(* Portfolio risk assessment and limit enforcement engine                  *)
(* (backend/app/api/endpoints/risk_management.py).                         *)
(*                                                                         *)
(* The handlers are `async def` functions without any await in their body, *)
(* so each request runs to completion on the event loop: one action per    *)
(* handler.  A handler is an operator from the stores and the request to   *)
(* the stores after it and the response it returns; its action installs    *)
(* the stores.  Floats are modelled by integers and by exact fractions     *)
(* <<numerator, denominator>>; the position snapshots are chosen so that   *)
(* every product and sum of the limit checks is an integer.                *)
(***************************************************************************)
EXTENDS Integers, Sequences, FiniteSets, TLC

VARIABLES
    positions,    \* positions: List[Position], written only by the position feed
    risk_limits,  \* risk_limits: List[RiskLimit]
    risk_cache,   \* risk_cache: Dict[str, Dict], keyed by get_cache_key(user_id)
    risk_alerts,  \* risk_alerts: List[RiskAlert]
    now,          \* datetime.utcnow(), in seconds
    next_id,      \* the next identifier generate_id() hands out
    cleared,      \* history: the users whose cache entry clear_risk_cache removed
                  \* and who have not requested an assessment since
    last_set,     \* history: <<id, X>> for every limit whose limit_value a
                  \* successful update set to X, with no update or delete since
    event_loop,   \* the requests the server accepted and has not run yet, with
                  \* the stores as they were when the group of requests began
    wallet_balances, \* the WalletBalance rows, by (user_id, asset)
    opening_total,   \* history: available + locked of every row at the start
    redis,           \* RedisCache: _connected and the rate limit key of one
                     \* identifier
    workers,         \* where each worker is inside check_rate_limit
    rate_log         \* history: the calls of the window and their answers

\* The stores of the services next to the risk engine.
serviceVars == <<wallet_balances, opening_total, redis, workers, rate_log>>

vars == <<positions, risk_limits, risk_cache, risk_alerts, now, next_id, cleared,
          last_set, event_loop, serviceVars>>

----------------------------------------------------------------------------
(* Bounds and input sets *)

MaxPositions == 2   \* positions in one snapshot of the feed
MaxLimits == 2      \* limits ever created (identifiers handed out)
MaxSeconds == 300   \* latest time of day the clock reaches
MaxDays == 1        \* latest day the clock reaches

\* Steps of the clock: half the cache duration, and one day.
TickSteps == {150, 86400}

Users == {"u1", "u2"}
Symbols == {"BTCUSDT", "ETHUSDT"}

\* limit_value of the requests: 5 equals the leverage of one position of
\* the pool (the boundary of the strict comparison) and lies below the
\* leverage 10 and every position value; 50000 lies above every leverage
\* and P&L and inside the range of the exposures.
LimitValues == {5, 50000}

\* Optional[T] request fields: <<>> is None, <<x>> is the value x.
Opt(S) == {<<>>} \cup {<<x>> : x \in S}

Abs(x) == IF x < 0 THEN -x ELSE x

Max(a, b) == IF a > b THEN a ELSE b

RECURSIVE SumSeq(_)
SumSeq(s) == IF s = <<>> THEN 0 ELSE Head(s) + SumSeq(Tail(s))

RECURSIVE MaxSeq(_)
MaxSeq(s) == IF Len(s) = 1 THEN Head(s) ELSE Max(Head(s), MaxSeq(Tail(s)))

----------------------------------------------------------------------------
(* Enumerations of schemas/risk_management.py *)

LimitTypes == {"position_size", "exposure", "leverage", "daily_loss", "daily_volume"}

VALID_LIMIT_TYPES == {"position_size", "exposure", "leverage", "daily_loss", "daily_volume"}

LimitStatus == {"active", "breached", "disabled"}

----------------------------------------------------------------------------
(* Position snapshots supplied by the position feed *)

\* unrealized_pnl is the one float of Position without a constraint, so
\* float('nan') is a value it may hold: pnl_is_nan says so, and
\* unrealized_pnl is then not read.
Position(u, sym, side, size, price, lev, pnl) ==
    [user_id |-> u, symbol |-> sym, side |-> side, size |-> size,
     current_price |-> price, leverage |-> lev, unrealized_pnl |-> pnl,
     pnl_is_nan |-> FALSE,
     margin_used |-> (size * price) \div lev]

\* A position whose unrealized_pnl is float('nan').
NanPosition(u, sym, side, size, price, lev) ==
    [Position(u, sym, side, size, price, lev, 0) EXCEPT !.pnl_is_nan = TRUE]

PositionPool ==
    { Position("u1", "BTCUSDT", "long", 1, 10000, 5, 0),
      Position("u1", "BTCUSDT", "long", 2, 10000, 10, -5000),
      Position("u1", "BTCUSDT", "short", 1, 30000, 1, 3000),
      Position("u1", "ETHUSDT", "short", 1, 10000, 1, 2000),
      Position("u2", "BTCUSDT", "short", 1, 20000, 10, -5000) }

PositionValues(ps) == [i \in 1..Len(ps) |-> Abs(ps[i].size * ps[i].current_price)]

----------------------------------------------------------------------------
(* Responses: RiskManagementResponse with the fields of every data payload *)

NoResponse == [success |-> TRUE, code |-> "",
               limits |-> <<>>, breaches |-> <<>>, current_exposures |-> <<>>,
               recommendations |-> <<>>, alerts |-> <<>>, data |-> <<>>,
               deleted |-> FALSE, cache_cleared |-> FALSE, details |-> <<>>]

\* RiskManagementResponse(success=False, error={'code': code, 'message': ...}):
\* the error dict of a refusal has no key 'details'.
Failure(code) == [NoResponse EXCEPT !.success = FALSE, !.code = code]

\* The answer of an except branch: error={'code': code, 'message': ...,
\* 'details': str(error)}
Raised(code, error) == [Failure(code) EXCEPT !.details = <<error>>]

----------------------------------------------------------------------------
(* Risk limit manager *)

UserPositions(user_id) == SelectSeq(positions, LAMBDA p : p.user_id = user_id)

SymbolPositions(user_id, symbol) ==
    SelectSeq(positions, LAMBDA p : p.user_id = user_id /\ p.symbol = symbol)

Leverages(ps) == [i \in 1..Len(ps) |-> ps[i].leverage]

AbsPnls(ps) == [i \in 1..Len(ps) |-> Abs(ps[i].unrealized_pnl)]

\* Faulty variant of BreachCheckValue: a daily_volume limit is measured
\* against the value of the user's positions.
BreachCheckValueMut(limit, user_id) ==
    CASE limit.limit_type = "position_size" ->
            SumSeq(PositionValues(SymbolPositions(user_id, limit.symbol)))
      [] limit.limit_type = "exposure" ->
            SumSeq(PositionValues(UserPositions(user_id)))
      [] limit.limit_type = "leverage" ->
            IF SymbolPositions(user_id, limit.symbol) # <<>>
            THEN MaxSeq(Leverages(SymbolPositions(user_id, limit.symbol)))
            ELSE 0
      [] limit.limit_type = "daily_loss" ->
            SumSeq(AbsPnls(UserPositions(user_id)))
      [] OTHER -> SumSeq(PositionValues(UserPositions(user_id)))

\* The value check_limit_breaches measures for a limit.
BreachCheckValue(limit, user_id) ==
    CASE limit.limit_type = "position_size" ->
            SumSeq(PositionValues(SymbolPositions(user_id, limit.symbol)))
      [] limit.limit_type = "exposure" ->
            SumSeq(PositionValues(UserPositions(user_id)))
      [] limit.limit_type = "leverage" ->
            IF SymbolPositions(user_id, limit.symbol) # <<>>
            THEN MaxSeq(Leverages(SymbolPositions(user_id, limit.symbol)))
            ELSE 0
      [] limit.limit_type = "daily_loss" ->
            SumSeq(AbsPnls(UserPositions(user_id)))
      [] OTHER -> 0

\* sum(abs(p.unrealized_pnl) ...) of the daily_loss check is nan when a
\* P&L of the user is nan; no comparison with nan is true.
MeasuredIsNan(limit, user_id) ==
    /\ limit.limit_type = "daily_loss"
    /\ \E i \in DOMAIN positions :
          positions[i].user_id = user_id /\ positions[i].pnl_is_nan

\* Faulty variant of IsBreach: a value equal to the limit counts as a breach.
IsBreachMut(current_value, limit_value) == current_value >= limit_value

IsBreach(current_value, limit_value) == current_value > limit_value

\* The limits check_limit_breaches appends to breaches: the user's active
\* limits whose measured value exceeds the limit value.
BreachedNow(limits, user_id) ==
    { i \in DOMAIN limits :
        /\ limits[i].user_id = user_id
        /\ limits[i].status = "active"
        /\ ~MeasuredIsNan(limits[i], user_id)
        /\ IsBreach(BreachCheckValue(limits[i], user_id), limits[i].limit_value) }

\* Faulty variant of check_limit_breaches: a breached limit of the user whose
\* measured value no longer exceeds the limit value is set active again.
check_limit_breachesMut(limits, user_id) ==
    LET hit == BreachedNow(limits, user_id)
        after == [i \in DOMAIN limits |->
                    IF i \in hit
                    THEN [limits[i] EXCEPT
                            !.current_value = BreachCheckValue(limits[i], user_id),
                            !.status = "breached"]
                    ELSE IF /\ limits[i].user_id = user_id
                            /\ limits[i].status = "breached"
                            /\ ~IsBreach(BreachCheckValue(limits[i], user_id),
                                         limits[i].limit_value)
                    THEN [limits[i] EXCEPT !.status = "active"]
                    ELSE limits[i]]
    IN  [limits |-> after,
         breaches |-> SelectSeq(after, LAMBDA l : \E i \in hit : limits[i].id = l.id)]

\* check_limit_breaches(user_id) on the store `limits`: the store after the
\* check and the list of breaches it returns (the mutated limit objects).
check_limit_breaches(limits, user_id) ==
    LET hit == BreachedNow(limits, user_id)
        after == [i \in DOMAIN limits |->
                    IF i \in hit
                    THEN [limits[i] EXCEPT
                            !.current_value = BreachCheckValue(limits[i], user_id),
                            !.status = "breached"]
                    ELSE limits[i]]
    IN  [limits |-> after,
         breaches |-> SelectSeq(after, LAMBDA l : \E i \in hit : limits[i].id = l.id)]

\* The value get_risk_limits writes to current_value before the breach check.
ListedCurrentValue(limit, user_id) ==
    CASE limit.limit_type = "position_size" ->
            SumSeq(PositionValues(SymbolPositions(user_id, limit.symbol)))
      [] limit.limit_type = "exposure" ->
            SumSeq(PositionValues(UserPositions(user_id)))
      [] limit.limit_type = "leverage" ->
            IF SymbolPositions(user_id, limit.symbol) # <<>>
            THEN MaxSeq(Leverages(SymbolPositions(user_id, limit.symbol)))
            ELSE 0
      [] OTHER -> 0

\* user_limits of get_risk_limits: the user's limits that pass the filters.
InFilter(limit, user_id, limit_type, symbol) ==
    /\ limit.user_id = user_id
    /\ limit_type # <<>> => limit.limit_type = limit_type[1]
    /\ symbol # <<>> => limit.symbol = symbol[1]

----------------------------------------------------------------------------
(* Exact fractions <<n, d>> with d > 0, standing for the floats n / d *)

RECURSIVE Gcd(_, _)
Gcd(a, b) == IF b = 0 THEN a ELSE Gcd(b, a % b)

Frac(n, d) ==
    LET g == Gcd(Abs(n), d) IN IF n = 0 THEN <<0, 1>> ELSE <<n \div g, d \div g>>

FracAdd(a, b) == Frac(a[1] * b[2] + b[1] * a[2], a[2] * b[2])

FracMul(a, b) == Frac(a[1] * b[1], a[2] * b[2])

FracGT(a, k) == a[1] > k * a[2]

FracLess(a, b) == a[1] * b[2] < b[1] * a[2]

\* Faulty variant of FracMin: the cap is not applied.
FracMinMut(a, k) == a

FracMin(a, k) == IF FracGT(a, k) THEN <<k, 1>> ELSE a

FracMax(a, k) == IF FracGT(a, k) THEN a ELSE <<k, 1>>

----------------------------------------------------------------------------
(* Position risk evaluator *)

\* The positions the evaluators score: the user's positions with a
\* nonzero unrealized P&L (nan != 0 is true).
ScoredPositions(user_id) ==
    SelectSeq(positions,
              LAMBDA p : p.user_id = user_id /\ (p.pnl_is_nan \/ p.unrealized_pnl # 0))

\* score > 80 critical, > 60 high, > 30 medium, else low
RiskLevelOf(risk_score) ==
    IF FracGT(risk_score, 80) THEN "critical"
    ELSE IF FracGT(risk_score, 60) THEN "high"
    ELSE IF FracGT(risk_score, 30) THEN "medium"
    ELSE "low"

\* min(((leverage - 1) * 10 + (20 if position_value > 10000 else 0)
\*      + abs(unrealized_pnl / position_value * 100)) if position_value > 0 else 0, 100)
PositionRiskScore(p) ==
    LET position_value == Abs(p.size * p.current_price)
        raw == IF position_value > 0
               THEN FracAdd(<<(p.leverage - 1) * 10
                               + (IF position_value > 10000 THEN 20 ELSE 0), 1>>,
                            Frac(Abs(p.unrealized_pnl) * 100, position_value))
               ELSE <<0, 1>>
    IN  FracMin(raw, 100)

\* One RiskExposure (its uuid, which nothing reads, is left out).
RiskExposure(p, user_id) ==
    [user_id |-> user_id,
     symbol |-> p.symbol,
     position_value |-> Abs(p.size * p.current_price),
     exposure_percentage |-> Frac(Abs(p.size * p.current_price) * 100, 100000),
     risk_score |-> PositionRiskScore(p),
     leverage_used |-> p.leverage,
     margin_used |-> p.margin_used,
     available_margin |-> Frac(p.current_price * p.size, 10),
     risk_level |-> RiskLevelOf(PositionRiskScore(p)),
     calculated_at |-> now]

\* RiskExposure(...) raises ValidationError: with a nan P&L the risk_score
\* is min(nan, 100) = nan, which the constraint ge=0 of RiskExposure refuses.
RiskExposureRaises(p) == p.pnl_is_nan /\ Abs(p.size * p.current_price) > 0

\* One try block holds the whole loop: an exception raised for any
\* position ends the loop and the function returns [].
calculate_position_risks(user_id) ==
    LET user_positions == ScoredPositions(user_id)
    IN  IF \E i \in DOMAIN user_positions : RiskExposureRaises(user_positions[i])
        THEN <<>>
        ELSE [i \in 1..Len(user_positions) |->
                RiskExposure(user_positions[i], user_id)]

----------------------------------------------------------------------------
(* Risk metric calculator *)

\* PortfolioRisk of an empty portfolio (and of a failed calculation)
\* Faulty variant of NeutralPortfolioRisk: the score of an empty portfolio
\* is what the scoring formula gives for no exposure.
NeutralPortfolioRiskMut ==
    [total_exposure |-> 0, total_portfolio_value |-> 0,
     exposure_percentage |-> <<0, 1>>, risk_score |-> <<20, 1>>,
     max_drawdown |-> <<0, 1>>, sharpe_ratio |-> <<0, 1>>,
     var95 |-> <<0, 1>>, var99 |-> <<0, 1>>,
     concentration_risk |-> <<0, 1>>, correlation_risk |-> <<0, 1>>,
     liquidity_risk |-> <<0, 1>>, market_risk |-> <<0, 1>>,
     calculated_at |-> now]

NeutralPortfolioRisk ==
    [total_exposure |-> 0, total_portfolio_value |-> 0,
     exposure_percentage |-> <<0, 1>>, risk_score |-> <<50, 1>>,
     max_drawdown |-> <<0, 1>>, sharpe_ratio |-> <<0, 1>>,
     var95 |-> <<0, 1>>, var99 |-> <<0, 1>>,
     concentration_risk |-> <<0, 1>>, correlation_risk |-> <<0, 1>>,
     liquidity_risk |-> <<0, 1>>, market_risk |-> <<0, 1>>,
     calculated_at |-> now]

SignedValues(ps) == [i \in 1..Len(ps) |-> ps[i].size * ps[i].current_price]

\* symbol_exposure[symbol] of the scored positions ps
SymbolExposure(ps, symbol) ==
    SumSeq(PositionValues(SelectSeq(ps, LAMBDA p : p.symbol = symbol)))

SymbolsOf(ps) == {ps[i].symbol : i \in DOMAIN ps}

\* max(symbol_exposure.values())
MaxSymbolExposure(ps) ==
    CHOOSE m \in {SymbolExposure(ps, sym) : sym \in SymbolsOf(ps)} :
        \A sym \in SymbolsOf(ps) : SymbolExposure(ps, sym) <= m

\* math.sqrt(0.02 if symbol_count > 1 else 0.05), in thousandths
VolatilityMilli(symbol_count) == IF symbol_count > 1 THEN 141 ELSE 224

\* The composite score: concentration (max 40) + leverage (max 30)
\* + diversification (max 20) + volatility (max 10), clamped to [0, 100]
PortfolioRiskScore(ps) ==
    LET total_exposure == SumSeq(PositionValues(ps))
        concentration_risk ==
            IF total_exposure > 0
            THEN Frac(MaxSymbolExposure(ps) * 100, total_exposure)
            ELSE <<0, 1>>
        leveraged == SelectSeq(ps, LAMBDA p : p.leverage > 1)
        leverage_ratio == Frac(Len(leveraged), Len(ps))
        symbol_count == Cardinality(SymbolsOf(ps))
        diversification_score == FracMax(Frac((10 - symbol_count) * 20, 10), 0)
        volatility_risk == FracMin(Frac(total_exposure * 10, 100000), 10)
        risk_score ==
            FracAdd(FracAdd(FracMin(FracMul(concentration_risk, <<4, 10>>), 40),
                            FracMin(FracMul(leverage_ratio, <<30, 1>>), 30)),
                    FracAdd(diversification_score, volatility_risk))
    IN  FracMax(FracMin(risk_score, 100), 0)

calculate_portfolio_risk_metrics(user_id) ==
    LET user_positions == ScoredPositions(user_id)
        total_exposure == SumSeq(PositionValues(user_positions))
        total_portfolio_value == SumSeq(SignedValues(user_positions))
        symbol_count == Cardinality(SymbolsOf(user_positions))
        concentration_risk ==
            IF total_exposure > 0
            THEN Frac(MaxSymbolExposure(user_positions) * 100, total_exposure)
            ELSE <<0, 1>>
        risk_score == PortfolioRiskScore(user_positions)
        volatility_risk == FracMin(Frac(total_exposure * 10, 100000), 10)
    IN
    IF user_positions = <<>>
    THEN NeutralPortfolioRisk
    ELSE [total_exposure |-> total_exposure,
          total_portfolio_value |-> total_portfolio_value,
          exposure_percentage |->
              IF total_portfolio_value > 0
              THEN Frac(total_exposure * 100, Abs(total_portfolio_value))
              ELSE <<0, 1>>,
          risk_score |-> risk_score,
          max_drawdown |->
              IF FracLess(FracMul(risk_score, <<2, 1000>>), <<2, 10>>)
              THEN FracMul(risk_score, <<2, 1000>>)
              ELSE <<2, 10>>,
          sharpe_ratio |->
              IF total_exposure > 0
              THEN Frac(80, VolatilityMilli(symbol_count))
              ELSE <<0, 1>>,
          var95 |-> Frac((total_exposure \div 1000) * VolatilityMilli(symbol_count) * 1645,
                         1000),
          var99 |-> Frac((total_exposure \div 1000) * VolatilityMilli(symbol_count) * 2326,
                         1000),
          concentration_risk |-> concentration_risk,
          correlation_risk |-> FracMul(concentration_risk, <<6, 10>>),
          liquidity_risk |-> IF symbol_count < 3 THEN <<1, 10>> ELSE <<0, 1>>,
          market_risk |-> FracMul(volatility_risk, <<10, 1>>),
          calculated_at |-> now]

----------------------------------------------------------------------------
(* Recommendation generator *)

Recommendation(text, symbol) == [text |-> text, symbol |-> symbol]

\* The position-level recommendations, one pass over position_risks.
RECURSIVE PositionRecommendations(_)
PositionRecommendations(risks) ==
    IF risks = <<>> THEN <<>>
    ELSE (IF Head(risks).risk_level = "critical"
          THEN <<Recommendation("critical risk level", Head(risks).symbol)>>
          ELSE IF Head(risks).risk_level = "high" /\ Head(risks).leverage_used > 5
          THEN <<Recommendation("high leverage", Head(risks).symbol)>>
          ELSE <<>>)
         \o PositionRecommendations(Tail(risks))

generate_risk_recommendations(portfolio_risk, risks) ==
    LET recommendations ==
            (IF FracGT(portfolio_risk.risk_score, 80)
             THEN <<Recommendation("portfolio risk critically high", "")>>
             ELSE IF FracGT(portfolio_risk.risk_score, 60)
             THEN <<Recommendation("portfolio risk elevated", "")>>
             ELSE <<>>)
            \o (IF FracGT(portfolio_risk.concentration_risk, 50)
                THEN <<Recommendation("highly concentrated", "")>>
                ELSE <<>>)
            \o (IF FracGT(portfolio_risk.exposure_percentage, 200)
                THEN <<Recommendation("exposure ratio very high", "")>>
                ELSE <<>>)
            \o PositionRecommendations(risks)
    IN  IF recommendations = <<>>
        THEN <<Recommendation("within acceptable ranges", "")>>
        ELSE recommendations

----------------------------------------------------------------------------
(* Assessment endpoints and the assessment cache *)

CACHE_DURATION == 300

SecondsPerDay == 86400

\* timedelta.seconds: the seconds of the difference within its last day
TimedeltaSeconds(delta) == delta % SecondsPerDay

\* Faulty variant of ActionRequired: the score threshold is forgotten.
ActionRequiredMut(risk_level, portfolio_risk, position_risk_list) ==
    \/ risk_level = "critical"
    \/ \E i \in DOMAIN position_risk_list :
           position_risk_list[i].risk_level = "critical"

\* action_required of the assessment
ActionRequired(risk_level, portfolio_risk, position_risk_list) ==
    \/ risk_level = "critical"
    \/ FracGT(portfolio_risk.risk_score, 70)
    \/ \E i \in DOMAIN position_risk_list :
           position_risk_list[i].risk_level = "critical"

\* The RiskAssessmentResponse the handler computes on a miss.
Assessment(user_id) ==
    LET portfolio_risk == calculate_portfolio_risk_metrics(user_id)
        position_risk_list == calculate_position_risks(user_id)
        risk_level == RiskLevelOf(portfolio_risk.risk_score)
    IN  [user_id |-> user_id,
         risk_level |-> risk_level,
         risk_score |-> portfolio_risk.risk_score,
         portfolio_risk |-> portfolio_risk,
         position_risks |-> position_risk_list,
         recommendations |->
             generate_risk_recommendations(portfolio_risk, position_risk_list),
         action_required |->
             ActionRequired(risk_level, portfolio_risk, position_risk_list),
         calculated_at |-> now]

\* Faulty variant of get_cache_key: the key does not depend on the user.
get_cache_keyMut(user_id) == <<"risk_assessment_", "">>

get_cache_key(user_id) == <<"risk_assessment_", user_id>>

\* Faulty variant of CacheLive: the comparison is turned around.
CacheLiveMut(entry) == now - entry.timestamp > CACHE_DURATION

\* (datetime.utcnow() - cached_data['timestamp']).seconds < CACHE_DURATION
CacheLive(entry) == TimedeltaSeconds(now - entry.timestamp) < CACHE_DURATION

\* GET /assessment
get_risk_assessment(cache, current_user) ==
    LET cache_key == get_cache_key(current_user)
        cached_data == cache[cache_key]
    IN  IF cached_data # <<>> /\ CacheLive(cached_data[1])
        THEN [cache |-> cache,
              cache_hit |-> TRUE,
              response |-> [NoResponse EXCEPT !.data = <<cached_data[1].data>>]]
        ELSE [cache |-> [cache EXCEPT ![cache_key] =
                            <<[data |-> Assessment(current_user), timestamp |-> now]>>],
              cache_hit |-> FALSE,
              response |-> [NoResponse EXCEPT !.data = <<Assessment(current_user)>>]]

\* Faulty variant of Cleared: the entry is not deleted.
ClearMut(cache, current_user) == cache

\* The cache after `if cache_key in risk_cache: del risk_cache[cache_key]`
Cleared(cache, current_user) ==
    [cache EXCEPT ![get_cache_key(current_user)] = <<>>]

\* DELETE /assessment/cache
clear_risk_cache(cache, current_user) ==
    [cache |-> Cleared(cache, current_user),
     response |-> [NoResponse EXCEPT !.cache_cleared = TRUE]]

----------------------------------------------------------------------------
(* Risk limit endpoints.  Each handler maps the limit store and the request *)
(* to the store after the call and the response.                            *)

\* GET /limits.  breach.limit_type is a plain str (RiskLimit has
\* use_enum_values = True), so building the recommendation for a breach
\* raises AttributeError on breach.limit_type.value: the handler's except
\* clause answers FETCH_ERROR after the store has been updated.
get_risk_limits(limits, current_user, limit_type, symbol) ==
    LET listed == [i \in DOMAIN limits |->
                    IF InFilter(limits[i], current_user, limit_type, symbol)
                    THEN [limits[i] EXCEPT
                            !.current_value = ListedCurrentValue(limits[i], current_user)]
                    ELSE limits[i]]
        checked == check_limit_breaches(listed, current_user)
        user_limits == SelectSeq(checked.limits,
                                 LAMBDA l : InFilter(l, current_user, limit_type, symbol))
    IN  [limits |-> checked.limits,
         response |->
            IF checked.breaches # <<>>
            THEN Raised("FETCH_ERROR", "AttributeError")
            ELSE [NoResponse EXCEPT
                    !.limits = user_limits,
                    !.current_exposures = calculate_position_risks(current_user),
                    !.breaches = checked.breaches,
                    !.recommendations =
                        <<"All risk limits are within acceptable ranges.">>]]

\* Faulty variant of ExistingActive: the status comparison never matches.
ExistingActiveMut(limits, user_id, symbol, limit_type) ==
    SelectSeq(limits, LAMBDA l : /\ l.user_id = user_id
                                 /\ l.symbol = symbol
                                 /\ l.limit_type = limit_type
                                 /\ l.status = "ACTIVE")

\* The active limits of the user for the symbol and type; create_risk_limit
\* takes the first one as existing_limit.
ExistingActive(limits, user_id, symbol, limit_type) ==
    SelectSeq(limits,
              LAMBDA l : /\ l.user_id = user_id
                         /\ l.symbol = symbol
                         /\ l.limit_type = limit_type
                         /\ l.status = "active")

NewLimit(id, user_id, symbol, limit_type, limit_value, auto_close) ==
    [id |-> id, user_id |-> user_id, symbol |-> symbol,
     limit_type |-> limit_type, limit_value |-> limit_value,
     current_value |-> 0, status |-> "active",
     created_at |-> now, updated_at |-> now, auto_close |-> auto_close]

\* POST /limits; id is the identifier generate_id() returns
create_risk_limit(limits, id, current_user, symbol, limit_type, limit_value, auto_close) ==
    IF limit_value <= 0
    THEN [limits |-> limits, response |-> Failure("INVALID_LIMIT_VALUE")]
    ELSE IF limit_type \notin VALID_LIMIT_TYPES
    THEN [limits |-> limits, response |-> Failure("INVALID_LIMIT_TYPE")]
    ELSE IF ExistingActive(limits, current_user, symbol, limit_type) # <<>>
    THEN [limits |-> limits, response |-> Failure("LIMIT_EXISTS")]
    ELSE [limits |-> Append(limits,
              NewLimit(id, current_user, symbol, limit_type, limit_value, auto_close)),
          response |-> [NoResponse EXCEPT
              !.limits = <<NewLimit(id, current_user, symbol, limit_type,
                                    limit_value, auto_close)>>]]

\* next((limit for limit in risk_limits if limit.id == id), None)
FindLimit(limits, id) == SelectSeq(limits, LAMBDA l : l.id = id)

\* The updates dict of update_risk_limit applied to the limit with setattr.
ApplyUpdates(limit, limit_value, status, auto_close) ==
    [limit EXCEPT
        !.updated_at = now,
        !.limit_value = IF limit_value # <<>> THEN limit_value[1] ELSE @,
        !.status = IF status # <<>> THEN status[1] ELSE @,
        !.auto_close = IF auto_close # <<>> THEN auto_close[1] ELSE @]

\* Faulty variant of IsOwner: the ownership check lets everyone through.
IsOwnerMut(limit, user_id) == TRUE

\* limit.user_id != user_id is what the handlers refuse with FORBIDDEN
IsOwner(limit, user_id) == limit.user_id = user_id

\* PATCH /limits
update_risk_limit(limits, current_user, id, limit_value, status, auto_close) ==
    LET found == FindLimit(limits, id)
    IN
    IF found = <<>>
    THEN [limits |-> limits, response |-> Failure("NOT_FOUND")]
    ELSE IF ~IsOwner(found[1], current_user)
    THEN [limits |-> limits, response |-> Failure("FORBIDDEN")]
    ELSE IF limit_value # <<>> /\ limit_value[1] <= 0
    THEN [limits |-> limits, response |-> Failure("INVALID_LIMIT_VALUE")]
    ELSE [limits |-> [i \in DOMAIN limits |->
                        IF limits[i].id = id
                        THEN ApplyUpdates(limits[i], limit_value, status, auto_close)
                        ELSE limits[i]],
          response |-> [NoResponse EXCEPT
              !.limits = <<ApplyUpdates(found[1], limit_value, status, auto_close)>>]]

\* Faulty variant of delete_risk_limit: the limit is removed before the
\* ownership check.
delete_risk_limitMut(limits, current_user, limit_id) ==
    LET found == SelectSeq(limits, LAMBDA l : l.id = limit_id)
    IN
    IF found = <<>>
    THEN [limits |-> limits, response |-> Failure("NOT_FOUND")]
    ELSE IF found[1].user_id # current_user
    THEN [limits |-> SelectSeq(limits, LAMBDA l : l.id # limit_id),
          response |-> Failure("FORBIDDEN")]
    ELSE [limits |-> SelectSeq(limits, LAMBDA l : l.id # limit_id),
          response |-> [NoResponse EXCEPT !.deleted = TRUE]]

\* DELETE /limits
delete_risk_limit(limits, current_user, limit_id) ==
    LET found == FindLimit(limits, limit_id)
    IN
    IF found = <<>>
    THEN [limits |-> limits, response |-> Failure("NOT_FOUND")]
    ELSE IF ~IsOwner(found[1], current_user)
    THEN [limits |-> limits, response |-> Failure("FORBIDDEN")]
    ELSE [limits |-> SelectSeq(limits, LAMBDA l : l.id # limit_id),
          response |-> [NoResponse EXCEPT !.deleted = TRUE]]

\* GET /alerts with its severity and resolved filters.  Nothing in the
\* module appends to risk_alerts, so the newest-first sort has nothing to order.
get_risk_alerts(alerts, current_user, severity, resolved) ==
    [response |-> [NoResponse EXCEPT
        !.alerts = SelectSeq(alerts,
            LAMBDA a : /\ a.user_id = current_user
                       /\ severity # <<>> => a.severity = severity[1]
                       /\ resolved # <<>> => a.is_resolved = resolved[1])]]

----------------------------------------------------------------------------
(* Request models: FastAPI validates the body against the pydantic model   *)
(* and answers 422 without calling the handler when a field is refused.    *)

StressTestScenario ==
    {"market_crash", "flash_crash", "correlation_breakdown", "high_volatility", "custom"}

\* symbol: min_length=1; limit_type: LimitType; limit_value: gt=0
ValidCreateRiskLimitRequest(symbol, limit_type, limit_value) ==
    /\ symbol # ""
    /\ limit_type \in LimitTypes
    /\ limit_value > 0

\* limit_value: Optional, gt=0; status: Optional[LimitStatus]
ValidUpdateRiskLimitRequest(limit_value, status) ==
    /\ limit_value # <<>> => limit_value[1] > 0
    /\ status # <<>> => status[1] \in LimitStatus

\* scenario: StressTestScenario; shock_percentage: gt=0, le=100
ValidStressTestRequest(scenario, shock_percentage) ==
    /\ scenario \in StressTestScenario
    /\ shock_percentage > 0
    /\ shock_percentage <= 100

\* The 422 answer of the framework.
RequestValidationError == Failure("HTTP_422")

\* POST /limits: the request model, then the handler
post_limits(limits, id, current_user, symbol, limit_type, limit_value, auto_close) ==
    IF ValidCreateRiskLimitRequest(symbol, limit_type, limit_value)
    THEN create_risk_limit(limits, id, current_user, symbol, limit_type,
                           limit_value, auto_close)
    ELSE [limits |-> limits, response |-> RequestValidationError]

\* PATCH /limits: the request model, then the handler
patch_limits(limits, current_user, id, limit_value, status, auto_close) ==
    IF ValidUpdateRiskLimitRequest(limit_value, status)
    THEN update_risk_limit(limits, current_user, id, limit_value, status, auto_close)
    ELSE [limits |-> limits, response |-> RequestValidationError]

----------------------------------------------------------------------------
(* Stress test and metrics summary: both only read the stores *)

\* loss of one position: size * price * (1 - shock / 100) - size * price
StressLoss(p, shock_percentage) ==
    Frac(-(p.size * p.current_price * shock_percentage), 100)

RECURSIVE TotalStressLoss(_, _)
TotalStressLoss(ps, shock_percentage) ==
    IF ps = <<>> THEN <<0, 1>>
    ELSE FracAdd(StressLoss(Head(ps), shock_percentage),
                 TotalStressLoss(Tail(ps), shock_percentage))

\* stress_request.scenario.value: the request model keeps the scenario as a
\* plain str (use_enum_values), which has no attribute value; <<>> stands
\* for the AttributeError the access raises.
ScenarioValue(scenario) == <<>>

\* The handler of POST /assessment/stress-test.
perform_stress_test(current_user, scenario, shock_percentage) ==
    LET user_positions == ScoredPositions(current_user)
        total_stress_loss == TotalStressLoss(user_positions, shock_percentage)
        scenario_value == ScenarioValue(scenario)
    IN  [response |->
            IF scenario_value = <<>>
            THEN Raised("STRESS_TEST_ERROR", "AttributeError")
            ELSE [NoResponse EXCEPT
                    !.data = <<[scenario |-> scenario_value[1],
                                shock_percentage |-> shock_percentage,
                                total_stress_loss |-> total_stress_loss,
                                position_results |->
                                    [i \in 1..Len(user_positions) |->
                                        [symbol |-> user_positions[i].symbol,
                                         loss |-> StressLoss(user_positions[i],
                                                             shock_percentage)]],
                                tested_at |-> now]>>]]

\* POST /assessment/stress-test: the request model, then the handler
post_stress_test(current_user, scenario, shock_percentage) ==
    IF ValidStressTestRequest(scenario, shock_percentage)
    THEN perform_stress_test(current_user, scenario, shock_percentage)
    ELSE [response |-> RequestValidationError]

\* GET /metrics
get_risk_metrics(limits, current_user) ==
    LET user_limits == SelectSeq(limits, LAMBDA l : l.user_id = current_user)
        position_risks == calculate_position_risks(current_user)
    IN  [response |-> [NoResponse EXCEPT
            !.data = <<[total_limits |-> Len(user_limits),
                        active_limits |->
                            Len(SelectSeq(user_limits, LAMBDA l : l.status = "active")),
                        breached_limits |->
                            Len(SelectSeq(user_limits, LAMBDA l : l.status = "breached")),
                        portfolio_risk_score |->
                            calculate_portfolio_risk_metrics(current_user).risk_score,
                        position_count |-> Len(ScoredPositions(current_user)),
                        critical_positions |->
                            Len(SelectSeq(position_risks,
                                          LAMBDA r : r.risk_level = "critical")),
                        calculated_at |-> now]>>]]

----------------------------------------------------------------------------
(* The position feed: it alone writes the positions list *)

OpenPosition(p) ==
    /\ Len(positions) < MaxPositions
    /\ positions' = Append(positions, p)
    /\ UNCHANGED <<risk_limits, risk_cache, risk_alerts, now, next_id, cleared, last_set, event_loop, serviceVars>>

ClosePosition(i) ==
    /\ i \in DOMAIN positions
    /\ positions' = [j \in 1..(Len(positions) - 1) |->
                        IF j < i THEN positions[j] ELSE positions[j + 1]]
    /\ UNCHANGED <<risk_limits, risk_cache, risk_alerts, now, next_id, cleared, last_set, event_loop, serviceVars>>

PositionFeed ==
    \/ \E p \in PositionPool : OpenPosition(p)
    \/ \E i \in 1..MaxPositions : ClosePosition(i)

----------------------------------------------------------------------------
(* Requests to the risk limit endpoints *)

CreateLimit(u, sym, t, v, ac) ==
    LET r == post_limits(risk_limits, next_id, u, sym, t, v, ac)
    IN  /\ r.response.success => next_id <= MaxLimits
        /\ risk_limits' = r.limits
        /\ next_id' = IF r.response.success THEN next_id + 1 ELSE next_id
        /\ UNCHANGED <<positions, risk_cache, risk_alerts, now, cleared, last_set, event_loop, serviceVars>>

\* last_set after a successful update or delete of the limit id: its pair
\* goes, and an update that carried limit_value X records <<id, X>>.
LastSetAfter(id, limit_value) ==
    {pair \in last_set : pair[1] # id}
        \cup (IF limit_value = <<>> THEN {} ELSE {<<id, limit_value[1]>>})

UpdateLimit(u, id, v, st, ac) ==
    LET r == patch_limits(risk_limits, u, id, v, st, ac)
    IN  /\ risk_limits' = r.limits
        /\ last_set' = IF r.response.success THEN LastSetAfter(id, v) ELSE last_set
        /\ UNCHANGED <<positions, risk_cache, risk_alerts, now, next_id, cleared,
                       event_loop, serviceVars>>

DeleteLimit(u, id) ==
    LET r == delete_risk_limit(risk_limits, u, id)
    IN  /\ risk_limits' = r.limits
        /\ last_set' = IF r.response.success THEN LastSetAfter(id, <<>>) ELSE last_set
        /\ UNCHANGED <<positions, risk_cache, risk_alerts, now, next_id, cleared,
                       event_loop, serviceVars>>

ListLimits(u, t, sym) ==
    /\ risk_limits' = get_risk_limits(risk_limits, u, t, sym).limits
    /\ UNCHANGED <<positions, risk_cache, risk_alerts, now, next_id, cleared, last_set, event_loop, serviceVars>>

ListAlerts(u, sev, res) ==
    /\ get_risk_alerts(risk_alerts, u, sev, res).response.success
    /\ UNCHANGED vars

\* The handler writes no store; the request is answered in every state.
RunStressTest(u, scenario, shock) ==
    /\ post_stress_test(u, scenario, shock).response.success \in BOOLEAN
    /\ UNCHANGED vars

GetMetricsSummary(u) ==
    /\ get_risk_metrics(risk_limits, u).response.success
    /\ UNCHANGED vars

----------------------------------------------------------------------------
(* Requests to the assessment endpoints, and the clock *)

GetAssessment(u) ==
    /\ risk_cache' = get_risk_assessment(risk_cache, u).cache
    /\ cleared' = cleared \ {u}
    /\ UNCHANGED <<positions, risk_limits, risk_alerts, now, next_id, last_set, event_loop, serviceVars>>

ClearCache(u) ==
    /\ risk_cache' = clear_risk_cache(risk_cache, u).cache
    /\ cleared' = cleared \cup {u}
    /\ UNCHANGED <<positions, risk_limits, risk_alerts, now, next_id, last_set, event_loop, serviceVars>>

\* The clock moves by d seconds; MaxSeconds and MaxDays bound its time of
\* day and its day.
Tick(d) ==
    /\ (now + d) % SecondsPerDay <= MaxSeconds
    /\ (now + d) \div SecondsPerDay <= MaxDays
    /\ now' = now + d
    /\ UNCHANGED <<positions, risk_limits, risk_cache, risk_alerts, next_id, cleared, last_set, event_loop, serviceVars>>

----------------------------------------------------------------------------
(* FinancialService (services/financial_service.py): wallet balances.      *)
(* Every call runs on the session of its request and commits at its end.   *)

WalletUsers == {1, 2}

\* asset arguments of the calls; the rows are stored under the upper case code
AssetCodes == {"USD", "usd", "BTC"}

\* asset.upper()
Upper(asset) == CASE asset = "usd" -> "USD" [] OTHER -> asset

WalletKeys == WalletUsers \X {Upper(asset) : asset \in AssetCodes}

\* amount of the calls: none of them negative
Amounts == {0, 300, 700, 1500}

WalletBalance(available, locked) ==
    [available_balance |-> available, locked_balance |-> locked]

\* The rows of the table before the calls: no row, a funded row with nothing
\* locked, or a row whose whole balance is locked.
OpeningRows == {<<>>, <<WalletBalance(1000, 0)>>, <<WalletBalance(0, 500)>>}

\* self.db.query(WalletBalance).filter(...).first(): <<>> is None
get_balance(balances, user_id, asset) == balances[<<user_id, Upper(asset)>>]

\* Faulty variant of lock_balance: the available balance is not compared
\* with the amount.
lock_balanceMut(balances, user_id, asset, amount) ==
    LET balance == get_balance(balances, user_id, asset)
    IN  IF balance = <<>>
        THEN [balances |-> balances, result |-> FALSE]
        ELSE [balances |->
                 [balances EXCEPT ![<<user_id, Upper(asset)>>] =
                     <<WalletBalance(balance[1].available_balance - amount,
                                     balance[1].locked_balance + amount)>>],
              result |-> TRUE]

lock_balance(balances, user_id, asset, amount) ==
    LET balance == get_balance(balances, user_id, asset)
    IN  IF balance = <<>>
        THEN [balances |-> balances, result |-> FALSE]
        ELSE IF balance[1].available_balance < amount
        THEN [balances |-> balances, result |-> FALSE]
        ELSE [balances |->
                 [balances EXCEPT ![<<user_id, Upper(asset)>>] =
                     <<WalletBalance(balance[1].available_balance - amount,
                                     balance[1].locked_balance + amount)>>],
              result |-> TRUE]

unlock_balance(balances, user_id, asset, amount) ==
    LET balance == get_balance(balances, user_id, asset)
    IN  IF balance = <<>>
        THEN [balances |-> balances, result |-> FALSE]
        ELSE IF balance[1].locked_balance < amount
        THEN [balances |-> balances, result |-> FALSE]
        ELSE [balances |->
                 [balances EXCEPT ![<<user_id, Upper(asset)>>] =
                     <<WalletBalance(balance[1].available_balance + amount,
                                     balance[1].locked_balance - amount)>>],
              result |-> TRUE]

----------------------------------------------------------------------------
(* RedisCache.check_rate_limit (db/redis_client.py) for one identifier.    *)
(* Every worker process calls it on its own connection: the GET and the    *)
(* SETEX or INCR that follows it are two commands, and the commands of     *)
(* other workers may run between them.  The key does not expire within the *)
(* window.                                                                 *)

Workers == {"w1", "w2", "w3"}

RateLimit == 2   \* limit of every call
MaxCalls == 4    \* calls made within the window

IdleWorker == [pc |-> "idle", current_count |-> 0, result |-> <<>>]

\* The call up to the answer of self._client.get(key): it returns
\* (True, limit) without a connection and (False, 0) when the count read has
\* reached the limit, and goes on to SETEX or INCR otherwise.
RateGet(w) ==
    /\ workers[w].pc = "idle"
    /\ rate_log.calls < MaxCalls
    /\ IF ~redis.connected
       THEN /\ workers' = [workers EXCEPT ![w].result = <<TRUE, RateLimit>>]
            /\ rate_log' = [rate_log EXCEPT !.calls = @ + 1, !.allowed = @ + 1]
       ELSE IF redis.counter = <<>>
       THEN /\ workers' = [workers EXCEPT ![w].pc = "setex", ![w].result = <<>>]
            /\ rate_log' = [rate_log EXCEPT !.calls = @ + 1]
       ELSE IF redis.counter[1] >= RateLimit
       THEN /\ workers' = [workers EXCEPT ![w].result = <<FALSE, 0>>]
            /\ rate_log' = [rate_log EXCEPT !.calls = @ + 1, !.denied = @ + 1]
       ELSE /\ workers' = [workers EXCEPT ![w].pc = "incr",
                                          ![w].current_count = redis.counter[1],
                                          ![w].result = <<>>]
            /\ rate_log' = [rate_log EXCEPT !.calls = @ + 1]
    /\ UNCHANGED <<positions, risk_limits, risk_cache, risk_alerts, now, next_id,
                   cleared, last_set, event_loop, wallet_balances, opening_total,
                   redis>>

\* self._client.setex(key, window, 1); return True, limit - 1
RateSetex(w) ==
    /\ workers[w].pc = "setex"
    /\ redis' = [redis EXCEPT !.counter = <<1>>]
    /\ workers' = [workers EXCEPT ![w] = [IdleWorker EXCEPT
                                            !.result = <<TRUE, RateLimit - 1>>]]
    /\ rate_log' = [rate_log EXCEPT !.allowed = @ + 1]
    /\ UNCHANGED <<positions, risk_limits, risk_cache, risk_alerts, now, next_id,
                   cleared, last_set, event_loop, wallet_balances, opening_total>>

\* self._client.incr(key); return True, limit - current_count - 1
RateIncr(w) ==
    /\ workers[w].pc = "incr"
    /\ redis' = [redis EXCEPT !.counter =
                    IF @ = <<>> THEN <<1>> ELSE <<@[1] + 1>>]
    /\ workers' = [workers EXCEPT ![w] = [IdleWorker EXCEPT
                      !.result = <<TRUE, RateLimit - workers[w].current_count - 1>>]]
    /\ rate_log' = [rate_log EXCEPT !.allowed = @ + 1]
    /\ UNCHANGED <<positions, risk_limits, risk_cache, risk_alerts, now, next_id,
                   cleared, last_set, event_loop, wallet_balances, opening_total>>

----------------------------------------------------------------------------
(* Actions of the wallet *)

LockBalance(user_id, asset, amount) ==
    /\ wallet_balances' = lock_balance(wallet_balances, user_id, asset, amount).balances
    /\ UNCHANGED <<positions, risk_limits, risk_cache, risk_alerts, now, next_id,
                   cleared, last_set, event_loop, opening_total, redis, workers,
                   rate_log>>

UnlockBalance(user_id, asset, amount) ==
    /\ wallet_balances' = unlock_balance(wallet_balances, user_id, asset, amount).balances
    /\ UNCHANGED <<positions, risk_limits, risk_cache, risk_alerts, now, next_id,
                   cleared, last_set, event_loop, opening_total, redis, workers,
                   rate_log>>

\* available + locked of a row, 0 when there is no row
RowTotal(row) ==
    IF row = <<>> THEN 0 ELSE row[1].available_balance + row[1].locked_balance

\* The services before any call: no balance row, Redis connected without
\* the rate limit key, every worker idle.
InitServices ==
    /\ wallet_balances = [k \in WalletKeys |-> <<>>]
    /\ opening_total = [k \in WalletKeys |-> 0]
    /\ redis = [connected |-> TRUE, counter |-> <<>>]
    /\ workers = [w \in Workers |-> IdleWorker]
    /\ rate_log = [calls |-> 0, allowed |-> 0, denied |-> 0]

----------------------------------------------------------------------------
(* Specifications *)

CacheKeys == {get_cache_key(u) : u \in Users}

\* No request is waiting for the event loop.
IdleLoop == [inflight |-> {}, batch |-> {}, limits |-> <<>>, cache |-> <<>>]

\* The module's stores right after import: all empty.
InitRisk ==
    /\ positions = <<>>
    /\ risk_limits = <<>>
    /\ risk_cache = [k \in CacheKeys |-> <<>>]
    /\ risk_alerts = <<>>
    /\ now = 0
    /\ next_id = 1
    /\ cleared = {}
    /\ last_set = {}
    /\ event_loop = IdleLoop

\* The risk engine right after import, next to services nobody has called.
Init == InitRisk /\ InitServices

\* The life cycle of the limits of both users: every request of the limit
\* endpoints, under a feed that holds one position at a time.  Limits are
\* created with the default auto_close; updates set the status.
NextLimits ==
    \/ \E p \in PositionPool : positions = <<>> /\ OpenPosition(p)
    \/ ClosePosition(1)
    \/ \E u \in Users, sym \in Symbols, t \in LimitTypes, v \in LimitValues :
            CreateLimit(u, sym, t, v, FALSE)
    \/ \E u \in Users, id \in 1..MaxLimits, st \in Opt(LimitStatus) :
            UpdateLimit(u, id, <<>>, st, <<>>)
    \/ \E u \in Users, id \in 1..MaxLimits : DeleteLimit(u, id)
    \/ \E u \in Users : ListLimits(u, <<>>, <<>>)

SpecLimits == Init /\ [][NextLimits]_vars

\* Breach detection: one user's limits of every type under the whole feed.
NextBreach ==
    \/ PositionFeed
    \/ \E sym \in Symbols, t \in LimitTypes, v \in LimitValues :
            CreateLimit("u1", sym, t, v, FALSE)
    \/ \E u \in Users : ListLimits(u, <<>>, <<>>)

SpecBreach == Init /\ [][NextBreach]_vars

\* The assessment cache under the feed and the clock.
NextCache ==
    \/ PositionFeed
    \/ \E d \in TickSteps : Tick(d)
    \/ \E u \in Users : GetAssessment(u)
    \/ \E u \in Users : ClearCache(u)

SpecCache == Init /\ [][NextCache]_vars

\* Alert derivation: limits on one symbol, assessments and the alert list,
\* under a feed that holds one position at a time.
NextAlerts ==
    \/ \E p \in PositionPool : positions = <<>> /\ OpenPosition(p)
    \/ ClosePosition(1)
    \/ \E u \in Users, t \in LimitTypes, v \in LimitValues :
            CreateLimit(u, "BTCUSDT", t, v, FALSE)
    \/ \E u \in Users : ListLimits(u, <<>>, <<>>)
    \/ \E u \in Users : GetAssessment(u)
    \/ \E u \in Users, sev \in Opt({"critical"}), res \in Opt(BOOLEAN) :
            ListAlerts(u, sev, res)

SpecAlerts == Init /\ [][NextAlerts]_vars

----------------------------------------------------------------------------
(* Claims *)

SameKey(a, b) ==
    /\ a.user_id = b.user_id
    /\ a.symbol = b.symbol
    /\ a.limit_type = b.limit_type

\* C1: the limit store never holds two active limits with the same
\* (user_id, symbol, limit_type).
C1_OneActiveLimitPerKey ==
    \A i, j \in DOMAIN risk_limits :
        (/\ i # j
         /\ SameKey(risk_limits[i], risk_limits[j])
         /\ risk_limits[i].status = "active")
        => risk_limits[j].status # "active"

\* The step is a breach check of some user (GET /limits).
IsBreachCheckStep ==
    \E u \in Users : risk_limits' = get_risk_limits(risk_limits, u, <<>>, <<>>).limits

\* The step is an UpdateLimit by some user.
IsUpdateStep ==
    \E u \in Users, id \in 1..MaxLimits, st \in Opt(LimitStatus) :
        risk_limits' = update_risk_limit(risk_limits, u, id, <<>>, st, <<>>).limits

\* C2: the status of a limit changes only from active to breached (by the
\* breach check), from breached to active (by UpdateLimit) or from breached
\* to disabled (by UpdateLimit).
C2_StatusTransitions ==
    [][\A i \in DOMAIN risk_limits, j \in DOMAIN risk_limits' :
         (/\ risk_limits[i].id = risk_limits'[j].id
          /\ risk_limits[i].status # risk_limits'[j].status)
         => \/ /\ risk_limits[i].status = "active"
               /\ risk_limits'[j].status = "breached"
               /\ IsBreachCheckStep
            \/ /\ risk_limits[i].status = "breached"
               /\ risk_limits'[j].status \in {"active", "disabled"}
               /\ IsUpdateStep]_vars

\* C3: for every user and every filter, the breach check of GET /limits
\* turns an active limit of the user to breached, with current_value the
\* value measured on the current positions, exactly when that value is
\* strictly greater than limit_value; otherwise the limit stays active.
C3_BreachIffValueExceedsLimit ==
    \A u \in Users, t \in Opt(LimitTypes), sym \in Opt(Symbols) :
        LET after == get_risk_limits(risk_limits, u, t, sym).limits
        IN  /\ Len(after) = Len(risk_limits)
            /\ \A i \in DOMAIN risk_limits :
                 (risk_limits[i].user_id = u /\ risk_limits[i].status = "active")
                 => IF BreachCheckValue(risk_limits[i], u) > risk_limits[i].limit_value
                    THEN /\ after[i].status = "breached"
                         /\ after[i].current_value = BreachCheckValue(risk_limits[i], u)
                    ELSE after[i].status = "active"

\* C3 witness: a breach check has marked one limit of u1 breached with the
\* measured value, and left another one, whose value equals its limit, active.
C3_Witness ==
    \E i, j \in DOMAIN risk_limits :
        /\ risk_limits[i].user_id = "u1" /\ risk_limits[j].user_id = "u1"
        /\ risk_limits[i].status = "breached"
        /\ risk_limits[i].current_value = BreachCheckValue(risk_limits[i], "u1")
        /\ risk_limits[i].current_value > risk_limits[i].limit_value
        /\ risk_limits[j].status = "active"
        /\ risk_limits[j].current_value = risk_limits[j].limit_value

\* C4: when an active limit's measured value exceeds its limit_value, the
\* next ListLimits call of its user succeeds and returns the limit with
\* status breached and the measured value as current_value.
C4_ListLimitsShowsBreach ==
    \A i \in DOMAIN risk_limits :
        LET limit == risk_limits[i]
            r == get_risk_limits(risk_limits, limit.user_id, <<>>, <<>>)
        IN  (/\ limit.status = "active"
             /\ BreachCheckValue(limit, limit.user_id) > limit.limit_value)
            => /\ r.response.success
               /\ \E k \in DOMAIN r.response.limits :
                    /\ r.response.limits[k].id = limit.id
                    /\ r.response.limits[k].status = "breached"
                    /\ r.response.limits[k].current_value =
                           BreachCheckValue(limit, limit.user_id)

\* C5: two ListLimits calls of one user in a row, with nothing in between,
\* leave the same current_value on every limit of the user.
C5_RecheckSameCurrentValue ==
    \A u \in Users :
        LET first == get_risk_limits(risk_limits, u, <<>>, <<>>).limits
            second == get_risk_limits(first, u, <<>>, <<>>).limits
        IN  \A i \in DOMAIN first :
                first[i].user_id = u
                => second[i].current_value = first[i].current_value

\* C6: a create request for a (user, symbol, limit_type) that has an active
\* limit is answered LIMIT_EXISTS and leaves the store as it is.
C6_DuplicateActiveIsConflict ==
    \A u \in Users, sym \in Symbols, t \in LimitTypes, v \in LimitValues, ac \in BOOLEAN :
        (\E i \in DOMAIN risk_limits :
            /\ risk_limits[i].user_id = u
            /\ risk_limits[i].symbol = sym
            /\ risk_limits[i].limit_type = t
            /\ risk_limits[i].status = "active")
        => LET r == create_risk_limit(risk_limits, next_id, u, sym, t, v, ac)
           IN  /\ ~r.response.success
               /\ r.response.code = "LIMIT_EXISTS"
               /\ r.limits = risk_limits

\* C6 witness: u1 holds an active limit next to one of another status for
\* the same key, an identifier is left, and the create request for the key
\* is refused.
C6_Witness ==
    \E i, j \in DOMAIN risk_limits :
        /\ i # j
        /\ SameKey(risk_limits[i], risk_limits[j])
        /\ risk_limits[i].status = "active"
        /\ risk_limits[j].status # "active"
        /\ create_risk_limit(risk_limits, next_id, risk_limits[i].user_id,
                             risk_limits[i].symbol, risk_limits[i].limit_type,
                             5, FALSE).response.code = "LIMIT_EXISTS"

\* C7: a cached assessment that is CACHE_DURATION seconds old or older,
\* however old, is never returned: GetAssessment recomputes from the current
\* positions and stores the fresh result.
C7_ExpiredEntryRecomputed ==
    \A u \in Users :
        LET entry == risk_cache[get_cache_key(u)]
            r == get_risk_assessment(risk_cache, u)
        IN  (entry # <<>> /\ now - entry[1].timestamp >= CACHE_DURATION)
            => /\ ~r.cache_hit
               /\ r.response.data = <<Assessment(u)>>
               /\ r.cache[get_cache_key(u)] =
                      <<[data |-> Assessment(u), timestamp |-> now]>>

\* C8: while the user's cache entry is younger than CACHE_DURATION seconds
\* and has not been cleared, GetAssessment returns the cached assessment as
\* it is and leaves the cache alone, whatever the positions are by now.
C8_LiveEntryReturnedVerbatim ==
    \A u \in Users :
        LET entry == risk_cache[get_cache_key(u)]
            r == get_risk_assessment(risk_cache, u)
        IN  (entry # <<>> /\ now - entry[1].timestamp < CACHE_DURATION)
            => /\ r.response.success
               /\ r.response.data = <<entry[1].data>>
               /\ r.cache = risk_cache

\* C8 witness: a live entry, written some time ago, whose assessment differs
\* from the one the current positions give, is what GetAssessment returns.
C8_Witness ==
    \E u \in Users :
        LET entry == risk_cache[get_cache_key(u)]
        IN  /\ entry # <<>>
            /\ entry[1].timestamp < now
            /\ now - entry[1].timestamp < CACHE_DURATION
            /\ entry[1].data.risk_score # Assessment(u).risk_score
            /\ get_risk_assessment(risk_cache, u).response.data = <<entry[1].data>>

\* C9: after ClearCache of a user, the user's next GetAssessment is computed
\* from the current positions and not taken from the cache.
C9_ClearedIsRecomputed ==
    \A u \in cleared :
        LET r == get_risk_assessment(risk_cache, u)
        IN  /\ ~r.cache_hit
            /\ r.response.data = <<Assessment(u)>>
            /\ r.cache[get_cache_key(u)] =
                   <<[data |-> Assessment(u), timestamp |-> now]>>

\* C9 witness: u1 cleared the cache while the other user's entry is still
\* live, and u1's next assessment is the fresh one of a non-empty portfolio.
C9_Witness ==
    /\ "u1" \in cleared
    /\ risk_cache[get_cache_key("u2")] # <<>>
    /\ UserPositions("u1") # <<>>
    /\ get_risk_assessment(risk_cache, "u1").response.data = <<Assessment("u1")>>
    /\ ~get_risk_assessment(risk_cache, "u1").cache_hit

\* The user has a breached limit in the store.
HasBreachedLimit(u) ==
    \E i \in DOMAIN risk_limits :
        risk_limits[i].user_id = u /\ risk_limits[i].status = "breached"

\* The user's latest assessment found critical risk.
HasCriticalAssessment(u) ==
    LET entry == risk_cache[get_cache_key(u)]
    IN  /\ entry # <<>>
        /\ \/ entry[1].data.risk_level = "critical"
           \/ \E k \in DOMAIN entry[1].data.position_risks :
                 entry[1].data.position_risks[k].risk_level = "critical"

\* C10: once a limit of a user is breached or an assessment of the user
\* found critical risk, ListAlerts returns an alert to the user.
C10_AlertOnBreachOrCritical ==
    \A u \in Users :
        (HasBreachedLimit(u) \/ HasCriticalAssessment(u))
        => get_risk_alerts(risk_alerts, u, <<>>, <<>>).response.alerts # <<>>

----------------------------------------------------------------------------
(* Updates: limits on one symbol, updated with every request field, under  *)
(* a feed that holds one position at a time.                               *)

\* limit_value of requests, with one the request models refuse
RequestValues == {0} \cup LimitValues

NextUpdate ==
    \/ \E p \in PositionPool : positions = <<>> /\ OpenPosition(p)
    \/ ClosePosition(1)
    \/ \E u \in Users, t \in {"position_size", "daily_loss"}, v \in RequestValues :
            CreateLimit(u, "BTCUSDT", t, v, FALSE)
    \/ \E u \in Users, id \in 1..MaxLimits, v \in Opt(RequestValues),
          st \in Opt({"active", "disabled"}) :
            UpdateLimit(u, id, v, st, <<>>)
    \/ \E u \in Users, id \in 1..MaxLimits : DeleteLimit(u, id)
    \/ \E u \in Users : ListLimits(u, <<>>, <<>>)

SpecUpdate == Init /\ [][NextUpdate]_vars

\* The limit exists and is owned by somebody else than u.
IsForeignLimit(u, id) ==
    \E i \in DOMAIN risk_limits :
        risk_limits[i].id = id /\ risk_limits[i].user_id # u

\* C11 as the spec states it: UpdateLimit and DeleteLimit by a user who does
\* not own the existing target limit answer FORBIDDEN, whatever the other
\* request fields are.
C11_NonOwnerForbiddenAnyFields ==
    \A u \in Users, id \in 1..MaxLimits :
        IsForeignLimit(u, id)
        => /\ delete_risk_limit(risk_limits, u, id).response.code = "FORBIDDEN"
           /\ \A v \in Opt(RequestValues), st \in Opt(LimitStatus), ac \in Opt(BOOLEAN) :
                patch_limits(risk_limits, u, id, v, st, ac).response.code = "FORBIDDEN"

\* C11 amended: UpdateLimit and DeleteLimit by a user who does not own the
\* existing target limit answer FORBIDDEN and touch nothing, whatever the
\* other fields are among those the request model accepts; an update whose
\* limit_value is not positive is refused before the handler runs.
C11_NonOwnerForbidden ==
    \A u \in Users, id \in 1..MaxLimits :
        IsForeignLimit(u, id)
        => /\ delete_risk_limit(risk_limits, u, id).response.code = "FORBIDDEN"
           /\ delete_risk_limit(risk_limits, u, id).limits = risk_limits
           /\ \A v \in Opt(RequestValues), st \in Opt(LimitStatus), ac \in Opt(BOOLEAN) :
                LET r == patch_limits(risk_limits, u, id, v, st, ac)
                IN  /\ r.limits = risk_limits
                    /\ r.response.code =
                          IF ValidUpdateRiskLimitRequest(v, st)
                          THEN "FORBIDDEN" ELSE "HTTP_422"

\* C11 witness: u2 addresses a breached limit of u1 after u1 changed its
\* limit_value; both the update and the delete of u2 are refused.
C11_Witness ==
    \E i \in DOMAIN risk_limits :
        /\ risk_limits[i].user_id = "u1"
        /\ risk_limits[i].status = "breached"
        /\ <<risk_limits[i].id, risk_limits[i].limit_value>> \in last_set
        /\ patch_limits(risk_limits, "u2", risk_limits[i].id, <<50000>>,
                        <<"active">>, <<TRUE>>).response.code = "FORBIDDEN"
        /\ delete_risk_limit(risk_limits, "u2", risk_limits[i].id).response.code
               = "FORBIDDEN"

\* C12: every CreateLimit, UpdateLimit or DeleteLimit call that is answered
\* with an error leaves the whole limit store as it was; an update whose
\* limit_value is not positive applies neither its status nor its
\* auto_close, be it refused by the request model or by the handler.
C12_ErrorLeavesStoreUnchanged ==
    /\ \A u \in Users, sym \in Symbols, t \in LimitTypes, v \in RequestValues :
         LET r == post_limits(risk_limits, next_id, u, sym, t, v, FALSE)
         IN  ~r.response.success => r.limits = risk_limits
    /\ \A u \in Users, id \in 1..(MaxLimits + 1) :
         LET r == delete_risk_limit(risk_limits, u, id)
         IN  ~r.response.success => r.limits = risk_limits
    /\ \A u \in Users, id \in 1..(MaxLimits + 1), v \in Opt(RequestValues),
          st \in Opt({"disabled"}), ac \in Opt({TRUE}) :
         LET r == patch_limits(risk_limits, u, id, v, st, ac)
             h == update_risk_limit(risk_limits, u, id, v, st, ac)
         IN  /\ ~r.response.success => r.limits = risk_limits
             /\ ~h.response.success => h.limits = risk_limits
             /\ (v # <<>> /\ v[1] <= 0)
                => /\ ~r.response.success /\ r.limits = risk_limits
                   /\ ~h.response.success /\ h.limits = risk_limits

\* C12 witness: with an active limit of u1 in the store, a duplicate create,
\* an update by u2, an update of u1 with limit_value 0 and a new status, and
\* deletes of an unknown limit and by u2 are all refused, each with its code.
C12_Witness ==
    \E i \in DOMAIN risk_limits :
        LET l == risk_limits[i]
        IN  /\ l.user_id = "u1"
            /\ l.status = "active"
            /\ next_id <= MaxLimits
            /\ post_limits(risk_limits, next_id, "u1", l.symbol, l.limit_type,
                           5, FALSE).response.code = "LIMIT_EXISTS"
            /\ patch_limits(risk_limits, "u2", l.id, <<5>>, <<>>, <<>>).response.code
                   = "FORBIDDEN"
            /\ patch_limits(risk_limits, "u1", l.id, <<0>>, <<"disabled">>,
                            <<TRUE>>).response.code = "HTTP_422"
            /\ update_risk_limit(risk_limits, "u1", l.id, <<0>>, <<"disabled">>,
                                 <<TRUE>>).response.code = "INVALID_LIMIT_VALUE"
            /\ delete_risk_limit(risk_limits, "u1", next_id).response.code = "NOT_FOUND"
            /\ delete_risk_limit(risk_limits, "u2", l.id).response.code = "FORBIDDEN"

\* C13: a limit whose limit_value a successful update set to X, and that
\* was not updated or deleted since, is returned by every ListLimits of its
\* owner, with limit_value X.
C13_UpdatedValueListed ==
    \A pair \in last_set :
        \A i \in DOMAIN risk_limits :
            risk_limits[i].id = pair[1]
            => LET r == get_risk_limits(risk_limits, risk_limits[i].user_id, <<>>, <<>>)
               IN  /\ r.response.success
                   /\ \E k \in DOMAIN r.response.limits :
                        /\ r.response.limits[k].id = pair[1]
                        /\ r.response.limits[k].limit_value = pair[2]

----------------------------------------------------------------------------
(* Concurrent requests.  The server accepts requests at any time; the      *)
(* event loop picks any accepted request and runs its handler, which has   *)
(* no await, from its first line to its return.                            *)

MaxInflight == 2   \* requests of one group of overlapping requests

\* A request: the operation, the caller, and the fields the operation reads
\* (the others are <<>>); n tells two equal requests apart.
Request(op, user, id, limit_value, status, n) ==
    [op |-> op, user |-> user, id |-> id, limit_value |-> limit_value,
     status |-> status, n |-> n]

\* The limit store and the cache a handler works on: the module globals,
\* read when the handler runs.
\* Faulty variant of LimitStoreView: the handler works on the limit store as
\* it was when the group of requests began.
LimitStoreViewMut == event_loop.limits

LimitStoreView == risk_limits

\* Faulty variant of CacheView: the handler works on the cache as it was
\* when the group of requests began.
CacheViewMut == event_loop.cache

CacheView == risk_cache

HandlerView == [limits |-> LimitStoreView, cache |-> CacheView]

\* The stores after the handler of the request ran on the stores.
Handle(stores, req) ==
    CASE req.op = "ListLimits" ->
            [stores EXCEPT !.limits =
                get_risk_limits(stores.limits, req.user, <<>>, <<>>).limits]
      [] req.op = "CreateLimit" ->
            [stores EXCEPT !.limits =
                post_limits(stores.limits, next_id, req.user, "BTCUSDT",
                            "position_size", req.limit_value[1], FALSE).limits]
      [] req.op = "UpdateLimit" ->
            [stores EXCEPT !.limits =
                patch_limits(stores.limits, req.user, req.id, req.limit_value,
                             req.status, <<>>).limits]
      [] req.op = "DeleteLimit" ->
            [stores EXCEPT !.limits =
                delete_risk_limit(stores.limits, req.user, req.id).limits]
      [] req.op = "GetAssessment" ->
            [stores EXCEPT !.cache = get_risk_assessment(stores.cache, req.user).cache]
      [] req.op = "ClearCache" ->
            [stores EXCEPT !.cache = clear_risk_cache(stores.cache, req.user).cache]
      [] OTHER -> stores   \* RunStressTest, GetMetricsSummary: no store is written

\* The requests that overlap in the model: breach checks, status updates,
\* assessments and cache clears of one user.
LoopRequests ==
    {Request("ListLimits", "u1", 0, <<>>, <<>>, n) : n \in 1..MaxInflight}
    \cup {Request("UpdateLimit", "u1", id, <<>>, <<st>>, 1) :
             id \in 1..MaxLimits, st \in {"active", "disabled"}}
    \cup {Request("GetAssessment", "u1", 0, <<>>, <<>>, n) : n \in 1..MaxInflight}
    \cup {Request("ClearCache", "u1", 0, <<>>, <<>>, 1)}

\* The server accepts the request; the first request of a group records the
\* stores the group starts from.
Accept(req) ==
    /\ req \notin event_loop.batch
    /\ Cardinality(event_loop.batch) < MaxInflight
    /\ event_loop.inflight = {} => event_loop.batch = {}
    /\ event_loop' =
          IF event_loop.batch = {}
          THEN [inflight |-> {req}, batch |-> {req},
                limits |-> risk_limits, cache |-> risk_cache]
          ELSE [event_loop EXCEPT !.inflight = @ \cup {req}, !.batch = @ \cup {req}]
    /\ UNCHANGED <<positions, risk_limits, risk_cache, risk_alerts, now, next_id,
                   cleared, last_set, serviceVars>>

\* The event loop runs the handler of one accepted request.
Run(req) ==
    LET after == Handle(HandlerView, req)
    IN  /\ req \in event_loop.inflight
        /\ risk_limits' = after.limits
        /\ risk_cache' = after.cache
        /\ event_loop' = [event_loop EXCEPT !.inflight = @ \ {req}]
        /\ cleared' = CASE req.op = "GetAssessment" -> cleared \ {req.user}
                        [] req.op = "ClearCache" -> cleared \cup {req.user}
                        [] OTHER -> cleared
        /\ last_set' = IF /\ req.op = "UpdateLimit"
                          /\ patch_limits(risk_limits, req.user, req.id, req.limit_value,
                                          req.status, <<>>).response.success
                       THEN LastSetAfter(req.id, req.limit_value)
                       ELSE last_set
        /\ UNCHANGED <<positions, risk_alerts, now, next_id, serviceVars>>

\* Every request of the group is answered; the next request starts a group.
Reply ==
    /\ event_loop.inflight = {}
    /\ event_loop.batch # {}
    /\ event_loop' = IdleLoop
    /\ UNCHANGED <<positions, risk_limits, risk_cache, risk_alerts, now, next_id,
                   cleared, last_set, serviceVars>>

\* The positions of the pool that belong to the user.
UserPool(u) == {p \in PositionPool : p.user_id = u}

\* Overlapping requests of u1 on u1's limits and cache entry; the feed, which
\* holds one position at a time, and the creation of limits act between
\* the groups.
NextLoop ==
    \/ \E p \in UserPool("u1") :
          event_loop = IdleLoop /\ positions = <<>> /\ OpenPosition(p)
    \/ event_loop = IdleLoop /\ ClosePosition(1)
    \/ event_loop = IdleLoop /\ CreateLimit("u1", "BTCUSDT", "position_size", 5, FALSE)
    \/ \E req \in LoopRequests : Accept(req)
    \/ \E req \in LoopRequests : Run(req)
    \/ Reply

SpecLoop == Init /\ [][NextLoop]_vars

\* The stores every order of running the requests one after the other gives.
RECURSIVE SerialOutcomes(_, _)
SerialOutcomes(stores, reqs) ==
    IF reqs = {} THEN {stores}
    ELSE UNION {SerialOutcomes(Handle(stores, req), reqs \ {req}) : req \in reqs}

\* The group of requests has run completely.
GroupDone == event_loop.inflight = {} /\ event_loop.batch # {}

\* The stores the group started from.
GroupStart == [limits |-> event_loop.limits, cache |-> event_loop.cache]

\* C14: when overlapping breach checks and status updates of a user have
\* all run, the limit store, and with it the status and current_value of
\* every limit, is the one that running the requests one after the other in
\* some order produces.
C14_LimitWritesSerialized ==
    GroupDone
    => \E out \in SerialOutcomes(GroupStart, event_loop.batch) :
            out.limits = risk_limits

\* C14 witness: a breach check that marks a limit breached and an update
\* that sets the status of the same limit have both run, and the two orders
\* of running them end in different stores.
C14_Witness ==
    /\ GroupDone
    /\ \E a, b \in event_loop.batch :
          /\ a.op = "ListLimits" /\ b.op = "UpdateLimit"
          /\ Handle(GroupStart, a).limits # GroupStart.limits
          /\ Handle(Handle(GroupStart, a), b).limits
                # Handle(Handle(GroupStart, b), a).limits

\* A cache entry is absent or holds one complete assessment of its user,
\* stamped with the time it was computed at.
CompleteEntry(u, entry) ==
    \/ entry = <<>>
    \/ /\ Len(entry) = 1
       /\ entry[1].data.user_id = u
       /\ entry[1].data.risk_score = entry[1].data.portfolio_risk.risk_score
       /\ entry[1].data.risk_level = RiskLevelOf(entry[1].data.risk_score)

\* C15: with overlapping GetAssessment and ClearCache requests of a user,
\* the user's cache entry is at every moment absent or one complete
\* assessment, is absent as long as the last request that ran for the user
\* is a ClearCache, and when the requests have all run the cache is the one
\* that running them one after the other in some order produces.
C15_CacheAccessAtomic ==
    /\ \A u \in Users : CompleteEntry(u, risk_cache[get_cache_key(u)])
    /\ \A u \in cleared : risk_cache[get_cache_key(u)] = <<>>
    /\ GroupDone
       => \E out \in SerialOutcomes(GroupStart, event_loop.batch) :
               out.cache = risk_cache

\* C15 witness: a GetAssessment and a ClearCache of u1 that began on a cache
\* holding an entry of u1 have both run; one order ends without an entry,
\* the other with a fresh one.
C15_Witness ==
    /\ GroupDone
    /\ GroupStart.cache[get_cache_key("u1")] # <<>>
    /\ \E a, b \in event_loop.batch :
          /\ a.op = "GetAssessment" /\ b.op = "ClearCache"
          /\ Handle(Handle(GroupStart, a), b).cache[get_cache_key("u1")] = <<>>
          /\ Handle(Handle(GroupStart, b), a).cache[get_cache_key("u1")]
                \notin {<<>>, GroupStart.cache[get_cache_key("u1")]}

\* Every operation of the engine as a request of user u.
FrameRequests(u) ==
    {Request(op, u, 0, <<>>, <<>>, 1) :
        op \in {"ListLimits", "GetAssessment", "ClearCache", "RunStressTest",
                "GetMetricsSummary"}}
    \cup {Request("CreateLimit", u, 0, <<v>>, <<>>, 1) : v \in LimitValues}
    \cup {Request("UpdateLimit", u, id, v, st, 1) :
             id \in 1..MaxLimits, v \in Opt({5}), st \in Opt({"active", "disabled"})}
    \cup {Request("DeleteLimit", u, id, <<>>, <<>>, 1) : id \in 1..MaxLimits}

\* The limits of the store that the user owns.
LimitsOf(limits, u) == SelectSeq(limits, LAMBDA l : l.user_id = u)

\* C16: every operation called for a user A leaves the limits owned by any
\* other user B and B's cache entry as they were.
C16_OtherUsersUntouched ==
    \A a, b \in Users :
        a # b
        => \A req \in FrameRequests(a) :
              LET after == Handle([limits |-> risk_limits, cache |-> risk_cache], req)
              IN  /\ LimitsOf(after.limits, b) = LimitsOf(risk_limits, b)
                  /\ after.cache[get_cache_key(b)] = risk_cache[get_cache_key(b)]

\* C16 witness: u2 has an active limit its position exceeds and a cache
\* entry; a ListLimits of u1 and a GetAssessment of u1 both change u1's
\* data.
C16_Witness ==
    LET stores == [limits |-> risk_limits, cache |-> risk_cache]
    IN  /\ \E i \in DOMAIN risk_limits :
              /\ risk_limits[i].user_id = "u2"
              /\ risk_limits[i].status = "active"
              /\ BreachCheckValue(risk_limits[i], "u2") > risk_limits[i].limit_value
        /\ risk_cache[get_cache_key("u2")] # <<>>
        /\ Handle(stores, Request("ListLimits", "u1", 0, <<>>, <<>>, 1)).limits
              # risk_limits
        /\ Handle(stores, Request("GetAssessment", "u1", 0, <<>>, <<>>, 1)).cache
              # risk_cache

----------------------------------------------------------------------------
(* Scoring: the evaluators applied to every snapshot of up to MaxPositions *)
(* positions of a pool.                                                    *)

\* The pool, with two positions of low score that together make a
\* portfolio of score 80.
ScorePool ==
    PositionPool \cup
    { Position("u1", "BTCUSDT", "long", 1, 30000, 2, 300),
      Position("u1", "ETHUSDT", "long", 1, 10000, 2, 100),
      NanPosition("u1", "ETHUSDT", "long", 1, 10000, 1) }

RECURSIVE SeqsUpTo(_, _)
SeqsUpTo(S, n) ==
    IF n = 0 THEN {<<>>}
    ELSE LET shorter == SeqsUpTo(S, n - 1)
         IN  shorter \cup {Append(s, x) : s \in shorter, x \in S}

\* shock_percentage of the stress test requests; 0 and 101 are refused by
\* the request model
ShockValues == {0, 10, 100, 101}

InitScore ==
    /\ positions \in SeqsUpTo(ScorePool, MaxPositions)
    /\ risk_limits = <<>>
    /\ risk_cache = [k \in CacheKeys |-> <<>>]
    /\ risk_alerts = <<>>
    /\ now = 0
    /\ next_id = 1
    /\ cleared = {}
    /\ last_set = {}
    /\ event_loop = IdleLoop
    /\ InitServices

NextScore ==
    \/ \E u \in Users : GetAssessment(u)
    \/ \E u \in Users : ClearCache(u)
    \/ \E u \in Users, sc \in StressTestScenario, shock \in ShockValues :
          RunStressTest(u, sc, shock)
    \/ \E u \in Users : GetMetricsSummary(u)

SpecScore == InitScore /\ [][NextScore]_vars

\* C17: in every assessment GetAssessment computed, action_required is true
\* exactly when the risk_level is critical, or the risk_score is above 70,
\* or a position risk is critical.
C17_ActionRequiredIff ==
    \A u \in Users :
        LET entry == risk_cache[get_cache_key(u)]
        IN  entry # <<>>
            => LET data == entry[1].data
               IN  data.action_required
                   <=> \/ data.risk_level = "critical"
                       \/ data.risk_score[1] > 70 * data.risk_score[2]
                       \/ \E k \in DOMAIN data.position_risks :
                             data.position_risks[k].risk_level = "critical"

\* C17 witness: GetAssessment computed an assessment that requires action
\* only because its score, 80, is above 70: the level is high and no
\* position is critical.
C17_Witness ==
    LET entry == risk_cache[get_cache_key("u1")]
    IN  /\ entry # <<>>
        /\ entry[1].data.action_required
        /\ entry[1].data.risk_score = <<80, 1>>
        /\ entry[1].data.risk_level = "high"
        /\ \A k \in DOMAIN entry[1].data.position_risks :
              entry[1].data.position_risks[k].risk_level # "critical"

\* C18: the risk_score of the portfolio and the risk_score of every
\* position risk lie between 0 and 100, for every user and snapshot.
C18_ScoresInRange ==
    \A u \in Users :
        LET score == calculate_portfolio_risk_metrics(u).risk_score
            risks == calculate_position_risks(u)
        IN  /\ score[2] > 0
            /\ 0 <= score[1] /\ score[1] <= 100 * score[2]
            /\ \A k \in DOMAIN risks :
                  /\ risks[k].risk_score[2] > 0
                  /\ 0 <= risks[k].risk_score[1]
                  /\ risks[k].risk_score[1] <= 100 * risks[k].risk_score[2]

\* C18 witness: a leveraged losing position, whose score before the cap is
\* 135, is scored 100 in a portfolio of score 90.
C18_Witness ==
    /\ \E i \in DOMAIN positions :
          /\ positions[i].user_id = "u1"
          /\ ((positions[i].leverage - 1) * 10 + 20) * positions[i].size
                * positions[i].current_price
                + Abs(positions[i].unrealized_pnl) * 100
             > 100 * positions[i].size * positions[i].current_price
    /\ \E k \in DOMAIN calculate_position_risks("u1") :
          calculate_position_risks("u1")[k].risk_score = <<100, 1>>
    /\ FracGT(calculate_portfolio_risk_metrics("u1").risk_score, 80)
    /\ risk_cache[get_cache_key("u1")] # <<>>

\* C19: for a user without open positions the metric calculator returns
\* the neutral snapshot: risk_score 50, and total_exposure,
\* total_portfolio_value, exposure_percentage, var95, var99 and
\* max_drawdown all 0.
C19_EmptyPortfolioNeutral ==
    \A u \in Users :
        UserPositions(u) = <<>>
        => LET m == calculate_portfolio_risk_metrics(u)
           IN  /\ m.risk_score = <<50, 1>>
               /\ m.total_exposure = 0
               /\ m.total_portfolio_value = 0
               /\ m.exposure_percentage = <<0, 1>>
               /\ m.var95 = <<0, 1>>
               /\ m.var99 = <<0, 1>>
               /\ m.max_drawdown = <<0, 1>>

\* C19 witness: u2 has no position while u1 has some, and the assessment
\* GetAssessment computed for u2 carries the neutral score.
C19_Witness ==
    /\ UserPositions("u2") = <<>>
    /\ UserPositions("u1") # <<>>
    /\ risk_cache[get_cache_key("u2")] # <<>>
    /\ risk_cache[get_cache_key("u2")][1].data.risk_score = <<50, 1>>
    /\ risk_cache[get_cache_key("u2")][1].data.portfolio_risk.total_exposure = 0

\* C20: RunStressTest with shock_percentage 0 returns, for every portfolio,
\* a result whose total_stress_loss is 0.
C20_ZeroShockZeroLoss ==
    \A u \in Users, sc \in StressTestScenario :
        LET r == post_stress_test(u, sc, 0).response
        IN  /\ r.success
            /\ r.data # <<>>
            /\ r.data[1].total_stress_loss = <<0, 1>>

----------------------------------------------------------------------------
(* Stress test and exposure totals over the whole snapshot *)

\* shock_percentage values the request model accepts
ValidShocks == {shock \in ShockValues : shock > 0 /\ shock <= 100}

\* C21: for every valid request (shock_percentage in (0, 100], any
\* scenario) RunStressTest returns a successful result whose
\* total_stress_loss is the sum of the losses of every position of the
\* user, long or short, with one per-position entry for each of them.
C21_StressLossOverAllPositions ==
    \A u \in Users, sc \in StressTestScenario, shock \in ValidShocks :
        LET r == post_stress_test(u, sc, shock).response
        IN  /\ r.success
            /\ r.data # <<>>
            /\ r.data[1].total_stress_loss = TotalStressLoss(UserPositions(u), shock)
            /\ Len(r.data[1].position_results) = Len(UserPositions(u))

\* C22: for a user with open positions, total_exposure of the PortfolioRisk
\* is the sum of |size * current_price| over all positions of the user and
\* total_portfolio_value the sum of size * current_price over them.
C22_TotalsOverAllPositions ==
    \A u \in Users :
        UserPositions(u) # <<>>
        => LET m == calculate_portfolio_risk_metrics(u)
           IN  /\ m.total_exposure = SumSeq(PositionValues(UserPositions(u)))
               /\ m.total_portfolio_value = SumSeq(SignedValues(UserPositions(u)))

\* C23: when computing the risk of one position raises, the position risk
\* evaluator leaves out only that position: it returns one RiskExposure for
\* every other scored position of the user, in the order of the positions.
C23_FailedPositionSkipped ==
    \A u \in Users :
        LET scored == SelectSeq(ScoredPositions(u), LAMBDA p : ~RiskExposureRaises(p))
        IN  calculate_position_risks(u)
            = [i \in 1..Len(scored) |-> RiskExposure(scored[i], u)]

----------------------------------------------------------------------------
(* The answers of the limit endpoints *)

\* What a response tells about limits: the ids of the limits it returns
\* and the details of its error.
CarriedIds(response) ==
    {response.limits[k].id : k \in DOMAIN response.limits}
        \cup {response.details[k] : k \in DOMAIN response.details}

\* C24: the conflict error CreateLimit returns for a duplicate active limit
\* carries the id of the active limit that exists for that user, symbol
\* and limit_type.
C24_ConflictCarriesExistingId ==
    \A u \in Users, sym \in Symbols, t \in LimitTypes, v \in LimitValues :
        LET existing == ExistingActive(risk_limits, u, sym, t)
            r == post_limits(risk_limits, next_id, u, sym, t, v, FALSE).response
        IN  existing # <<>>
            => /\ r.code = "LIMIT_EXISTS"
               /\ existing[1].id \in CarriedIds(r)

\* The limit with identifier id is in the store `limits` and is breached.
StaysBreached(limits, id) ==
    \E j \in DOMAIN limits : limits[j].id = id /\ limits[j].status = "breached"

\* C26: a breached limit stays breached until an UpdateLimit sets its
\* status or a DeleteLimit removes it: it is still breached after every
\* ListLimits (with its breach check), every CreateLimit, every UpdateLimit
\* that sets no status and every DeleteLimit of another limit, whatever
\* its measured value and its limit_value are by then.
C26_BreachedStaysBreached ==
    \A i \in DOMAIN risk_limits :
        risk_limits[i].status = "breached"
        => LET id == risk_limits[i].id
           IN  /\ \A u \in Users, t \in Opt(LimitTypes), sym \in Opt(Symbols) :
                     StaysBreached(get_risk_limits(risk_limits, u, t, sym).limits, id)
               /\ \A u \in Users, t \in LimitTypes, v \in RequestValues :
                     StaysBreached(
                         post_limits(risk_limits, next_id, u, "BTCUSDT", t, v, FALSE).limits,
                         id)
               /\ \A u \in Users, target \in 1..MaxLimits, v \in Opt(RequestValues),
                      ac \in Opt({TRUE}) :
                     StaysBreached(
                         patch_limits(risk_limits, u, target, v, <<>>, ac).limits, id)
               /\ \A u \in Users, target \in (1..MaxLimits) \ {id} :
                     StaysBreached(delete_risk_limit(risk_limits, u, target).limits, id)

\* C26 witness: a limit created with value 5 was breached, its limit_value
\* was then raised to 50000, the position was closed, and a later ListLimits
\* wrote the current_value 0: the limit is breached with nothing measured.
C26_Witness ==
    \E i \in DOMAIN risk_limits :
        /\ risk_limits[i].status = "breached"
        /\ risk_limits[i].limit_type = "position_size"
        /\ risk_limits[i].limit_value = 50000
        /\ risk_limits[i].current_value = 0
        /\ BreachCheckValue(risk_limits[i], risk_limits[i].user_id) = 0

\* C27: a ListLimits call with a symbol or limit_type filter leaves the
\* user's limits outside the filter unchanged in the store, and none of
\* them is in breaches[] of the response.
C27_FilterBoundsBreachCheck ==
    \A u \in Users, t \in Opt(LimitTypes), sym \in Opt(Symbols) :
        LET r == get_risk_limits(risk_limits, u, t, sym)
        IN  \A i \in DOMAIN risk_limits :
                (risk_limits[i].user_id = u /\ ~InFilter(risk_limits[i], u, t, sym))
                => /\ r.limits[i] = risk_limits[i]
                   /\ \A k \in DOMAIN r.response.breaches :
                         r.response.breaches[k].id # risk_limits[i].id

\* C28: a daily_volume limit is never set to breached by the breach check,
\* whatever the positions of its user are, and its current_value is 0:
\* in the store, and after every ListLimits call with its breach check.
C28_DailyVolumeNeverBreached ==
    /\ \A i \in DOMAIN risk_limits :
          risk_limits[i].limit_type = "daily_volume"
          => risk_limits[i].status = "active" /\ risk_limits[i].current_value = 0
    /\ \A u \in Users, t \in Opt(LimitTypes), sym \in Opt(Symbols) :
          LET after == get_risk_limits(risk_limits, u, t, sym).limits
          IN  \A i \in DOMAIN risk_limits :
                  risk_limits[i].limit_type = "daily_volume"
                  => /\ after[i].status = risk_limits[i].status
                     /\ after[i].current_value = 0

\* C28 witness: u1 holds positions worth more than the value 5 of its
\* active daily_volume limit, and a breach check that ran on these
\* positions has marked another limit of u1 breached.
C28_Witness ==
    \E i, j \in DOMAIN risk_limits :
        /\ risk_limits[i].user_id = "u1" /\ risk_limits[j].user_id = "u1"
        /\ risk_limits[i].limit_type = "daily_volume"
        /\ risk_limits[i].limit_value = 5
        /\ risk_limits[i].status = "active"
        /\ SumSeq(PositionValues(UserPositions("u1"))) > 5
        /\ risk_limits[j].status = "breached"
        /\ risk_limits[j].current_value = BreachCheckValue(risk_limits[j], "u1")

\* C29: a ListLimits response recommends "All risk limits are within
\* acceptable ranges." only when no limit of its limits[] is breached, and
\* every limit it returns as breached is also in its breaches[].
C29_BreachedListedAsBreach ==
    \A u \in Users, t \in Opt(LimitTypes), sym \in Opt(Symbols) :
        LET r == get_risk_limits(risk_limits, u, t, sym).response
        IN  \A k \in DOMAIN r.limits :
                r.limits[k].status = "breached"
                => /\ \A n \in DOMAIN r.recommendations :
                         r.recommendations[n]
                             # "All risk limits are within acceptable ranges."
                   /\ \E b \in DOMAIN r.breaches : r.breaches[b].id = r.limits[k].id

----------------------------------------------------------------------------
(* Wallet balances under lock_balance and unlock_balance *)

InitWallet ==
    /\ InitRisk
    /\ wallet_balances \in [WalletKeys -> OpeningRows]
    /\ opening_total = [k \in WalletKeys |-> RowTotal(wallet_balances[k])]
    /\ redis = [connected |-> TRUE, counter |-> <<>>]
    /\ workers = [w \in Workers |-> IdleWorker]
    /\ rate_log = [calls |-> 0, allowed |-> 0, denied |-> 0]

NextWallet ==
    \/ \E u \in WalletUsers, asset \in AssetCodes, amount \in Amounts :
          LockBalance(u, asset, amount)
    \/ \E u \in WalletUsers, asset \in AssetCodes, amount \in Amounts :
          UnlockBalance(u, asset, amount)

SpecWallet == InitWallet /\ [][NextWallet]_vars

\* C25: lock_balance with an amount >= 0 returns True and moves exactly the
\* amount from available_balance to locked_balance of the row when the row
\* exists with available_balance >= amount, and otherwise returns False and
\* changes nothing; after every sequence of lock_balance and unlock_balance
\* calls the sum available_balance + locked_balance of a row is what it was
\* at the start, and neither balance is negative.
C25_LockMovesExactlyAmount ==
    /\ \A k \in WalletKeys :
          wallet_balances[k] # <<>>
          => /\ wallet_balances[k][1].available_balance >= 0
             /\ wallet_balances[k][1].locked_balance >= 0
             /\ RowTotal(wallet_balances[k]) = opening_total[k]
    /\ \A u \in WalletUsers, asset \in AssetCodes, amount \in Amounts :
          LET k == <<u, Upper(asset)>>
              row == wallet_balances[k]
              r == lock_balance(wallet_balances, u, asset, amount)
          IN  IF row # <<>> /\ row[1].available_balance >= amount
              THEN /\ r.result
                   /\ r.balances[k] =
                         <<WalletBalance(row[1].available_balance - amount,
                                         row[1].locked_balance + amount)>>
                   /\ \A other \in WalletKeys \ {k} :
                         r.balances[other] = wallet_balances[other]
              ELSE /\ ~r.result
                   /\ r.balances = wallet_balances

\* C25 witness: two lock_balance calls have moved 1000 of the 1000 a row of
\* user 1 held to its locked balance, so that a further lock_balance of 300
\* is refused, while another row had its locked balance released.
C25_Witness ==
    /\ wallet_balances[<<1, "USD">>] = <<WalletBalance(0, 1000)>>
    /\ opening_total[<<1, "USD">>] = 1000
    /\ ~lock_balance(wallet_balances, 1, "usd", 300).result
    /\ \E k \in WalletKeys :
          /\ wallet_balances[k] # <<>>
          /\ opening_total[k] = 500
          /\ wallet_balances[k][1].available_balance = 300

----------------------------------------------------------------------------
(* The rate limiter under concurrent workers *)

InitRate ==
    /\ InitRisk
    /\ wallet_balances = [k \in WalletKeys |-> <<>>]
    /\ opening_total = [k \in WalletKeys |-> 0]
    /\ redis \in [connected : BOOLEAN, counter : {<<>>}]
    /\ workers = [w \in Workers |-> IdleWorker]
    /\ rate_log = [calls |-> 0, allowed |-> 0, denied |-> 0]

NextRate ==
    \/ \E w \in Workers : RateGet(w)
    \/ \E w \in Workers : RateSetex(w)
    \/ \E w \in Workers : RateIncr(w)

SpecRate == InitRate /\ [][NextRate]_vars

\* C30: with Redis connected, check_rate_limit answers allowed=True for at
\* most `limit` calls of the window, however the commands of concurrent
\* workers interleave, and every answer that refuses a call is (False, 0).
C30_AtMostLimitAllowed ==
    /\ redis.connected => rate_log.allowed <= RateLimit
    /\ \A w \in Workers :
          (workers[w].result # <<>> /\ ~workers[w].result[1])
          => workers[w].result = <<FALSE, 0>>

====
